---- MODULE Spec2Model ----
(***************************************************************************)
(* Ant nuptial-flight predictor (server.js): the express handlers          *)
(*   GET /api/predict, POST /api/sightings, GET /api/sightings             *)
(* over the in-memory sightings store, with the forecasting pipeline they  *)
(* drive.                                                                  *)
(*                                                                         *)
(* Numbers.  JavaScript doubles are modelled in fixed point: a real x is   *)
(* the integer round(x * 1000) ("milli" units), which is also the          *)
(* resolution toFixed(3) leaves in the output.  exp, sin, cos, sqrt and    *)
(* atan2 are computed on these integers by series; all intermediate        *)
(* products stay below 2^31.  A value that may be NaN is a record          *)
(* [nan, v].  An array built by a loop is written [k \in 1..n |-> e] \o <<>>, *)
(* the sequence with its elements computed once.                           *)
(*                                                                         *)
(* Time.  The clock counts whole hours since the epoch; every timestamp of *)
(* one request differs from the request's `now` by a whole number of       *)
(* hours, so the date part of toISOString() is decided by the hour count.  *)
(* An ISO timestamp is the record [y, m, d, h]; its first ten characters   *)
(* (the date) are the tuple <<y, m, d>>, whose string order is the         *)
(* lexicographic order of the tuple.                                       *)
(***************************************************************************)
EXTENDS Integers, Sequences, FiniteSets, TLC

VARIABLES sightings, now, pend, resp

vars == <<sightings, now, pend, resp>>

\* ---------------------------------------------------------------- bounds
MaxSightings == 3
MaxTicks == 1

\* const MAX_FORECAST_DAYS = 16
MAX_FORECAST_DAYS == 16

\* ------------------------------------------------------- fixed-point maths
\* toFixed(3): one unit of the model is 0.001

NaN == [nan |-> TRUE, v |-> 0]
Num(x) == [nan |-> FALSE, v |-> x]

Abs(x) == IF x < 0 THEN -x ELSE x
Max2(a, b) == IF a > b THEN a ELSE b
Min2(a, b) == IF a < b THEN a ELSE b

\* a / b rounded to the nearest integer (b > 0)
RoundDiv(a, b) == (2 * a + b) \div (2 * b)

\* 10^6 * e^-k, k = 0..6
EPow == <<1000000, 367879, 135335, 49787, 18316, 6738, 2479>>

\* one Horner step of the Taylor series of e^-f: 1 - (f / k) * inner, in 10^-6
ExpStep(f, k, inner) == 1000000 - (f * inner) \div (k * 1000)

\* 10^6 * e^(-f/1000) for 0 <= f < 1000, by the Taylor series
ExpFrac(f) ==
    ExpStep(f, 1, ExpStep(f, 2, ExpStep(f, 3, ExpStep(f, 4,
        ExpStep(f, 5, ExpStep(f, 6, ExpStep(f, 7, 1000000)))))))

\* Math.exp(-x): x >= 0 in milli, result in milli
ExpNeg(x) ==
    IF x >= 7000 THEN 0
    ELSE RoundDiv(RoundDiv(EPow[(x \div 1000) + 1], 100) * RoundDiv(ExpFrac(x % 1000), 100), 100000)

\* an angle of 0..6282 brought into -3141..3142
WrapAngle(r) == IF r > 3142 THEN r - 6283 ELSE r

\* sin(a) = sin(pi - a): an angle brought into -1571..1571
FoldAngle(a) == IF a > 1571 THEN 3142 - a ELSE IF a < -1571 THEN -3142 - a ELSE a

\* one Horner step of the Taylor series of sin: 1 - (b2 / k) * inner, in 10^-6
SinStep(b2, k, inner) == 1000000 - (b2 * (inner \div 1000)) \div k

\* the series b - b^3/3! + b^5/5! - b^7/7! + b^9/9!, b2 = b^2 in milli
SinSeries(b, b2) ==
    RoundDiv(b * (SinStep(b2, 6, SinStep(b2, 20, SinStep(b2, 42, SinStep(b2, 72, 1000000)))) \div 1000), 1000)

\* b^2 in milli
Square(b) == (b * b) \div 1000

\* Math.sin(x): x in milli-radians, result in milli
Sin(x) == SinSeries(FoldAngle(WrapAngle(x % 6283)), Square(FoldAngle(WrapAngle(x % 6283))))

Cos(x) == Sin(x + 1571)

\* floor(sqrt(n)) for n >= 0
RECURSIVE SqrtIter(_, _, _)
SqrtIter(n, lo, hi) ==
    IF lo >= hi THEN lo
    ELSE LET mid == (lo + hi + 1) \div 2
         IN  IF mid * mid <= n THEN SqrtIter(n, mid, hi) ELSE SqrtIter(n, lo, mid - 1)

ISqrt(n) == SqrtIter(n, 0, 46340)

\* atan(z) for 0 <= z <= 1 (z in milli), result in milli-radians
AtanUnit(z) == (785 * z + (273 * z * (1000 - z)) \div 1000) \div 1000

\* Math.atan2(y, x) for x, y >= 0, not both 0 (milli in, milli-radians out)
Atan2(y, x) ==
    IF y = 0 THEN 0
    ELSE IF y <= x THEN AtanUnit((y * 1000) \div x)
    ELSE 1571 - AtanUnit((x * 1000) \div y)

\* ------------------------------------------------------------------ dates
\* the civil date of a day number (days since 1970-01-01), in steps: the
\* 400-year era and the day of it, the year of the era, the day of the year
\* (years starting in March), the month
CivilOfMonth(y, doy, mp) ==
    << IF mp < 10 THEN y ELSE y + 1,
       IF mp < 10 THEN mp + 3 ELSE mp - 9,
       doy - (153 * mp + 2) \div 5 + 1 >>

CivilOfDay(y, doy) == CivilOfMonth(y, doy, (5 * doy + 2) \div 153)

CivilOfYear(era, doe, yoe) ==
    CivilOfDay(yoe + era * 400, doe - (365 * yoe + yoe \div 4 - yoe \div 100))

CivilOfEra(era, doe) ==
    CivilOfYear(era, doe, (doe - doe \div 1460 + doe \div 36524 - doe \div 146096) \div 365)

\* Date.prototype.toISOString's calendar fields of a day number
CivilFromDays(z) == CivilOfEra((z + 719468) \div 146097, (z + 719468) % 146097)

\* the day number of year y (starting in March), shifted month mp, day d
DaysOfShifted(y, mp, d) ==
    (y \div 400) * 146097
    + (y % 400) * 365 + (y % 400) \div 4 - (y % 400) \div 100
    + (153 * mp + 2) \div 5 + d - 1 - 719468

\* new Date("YYYY-MM-DD"): the day number of a calendar date (UTC midnight)
DaysFromCivil(date) ==
    DaysOfShifted(IF date[2] <= 2 THEN date[1] - 1 ELSE date[1],
                  IF date[2] > 2 THEN date[2] - 3 ELSE date[2] + 9,
                  date[3])

\* the timestamp string of a civil date and an hour
IsoOf(c, hour) == [y |-> c[1], m |-> c[2], d |-> c[3], h |-> hour]

\* new Date(ms).toISOString() for the instant `t` hours after the epoch
ToISOString(t) == IsoOf(CivilFromDays(t \div 24), t % 24)

\* time.slice(0, 10)
DateOf(iso) == <<iso.y, iso.m, iso.d>>

\* new Date(isoString), in hours since the epoch
ParseISO(iso) == DaysFromCivil(DateOf(iso)) * 24 + iso.h

\* string comparison of two "YYYY-MM-DD" dates
DateLess(a, b) ==
    \/ a[1] < b[1]
    \/ a[1] = b[1] /\ a[2] < b[2]
    \/ a[1] = b[1] /\ a[2] = b[2] /\ a[3] < b[3]

\* ---------------------------------------------------------------- catalog
\* SPECIES: temperatures in milli-degrees, coefficients in milli
SPECIES == <<
    [genus |-> "Camponotus",   species |-> "modoc", months |-> {5,6,7,8},   t_opt |-> 28000, t_width |-> 6000, rh_k |-> 150, rain_sens |-> 1000, wind_penalty |-> 100],
    [genus |-> "Formica",      species |-> "null",  months |-> {5,6,7,8,9}, t_opt |-> 26000, t_width |-> 7000, rh_k |-> 120, rain_sens |-> 900,  wind_penalty |-> 100],
    [genus |-> "Lasius",       species |-> "null",  months |-> {8,9,10},    t_opt |-> 24000, t_width |-> 5000, rh_k |-> 180, rain_sens |-> 1200, wind_penalty |-> 50],
    [genus |-> "Tetramorium",  species |-> "null",  months |-> {6,7,8},     t_opt |-> 27000, t_width |-> 5500, rh_k |-> 140, rain_sens |-> 1000, wind_penalty |-> 100],
    [genus |-> "Solenopsis",   species |-> "null",  months |-> {6,7,8,9},   t_opt |-> 29000, t_width |-> 6000, rh_k |-> 160, rain_sens |-> 1100, wind_penalty |-> 150],
    [genus |-> "Pogonomyrmex", species |-> "null",  months |-> {7,8,9},     t_opt |-> 31000, t_width |-> 5000, rh_k |-> 100, rain_sens |-> 800,  wind_penalty |-> 200],
    [genus |-> "Prenolepis",   species |-> "null",  months |-> {2,3,4},     t_opt |-> 18000, t_width |-> 4000, rh_k |-> 120, rain_sens |-> 1000, wind_penalty |-> 50],
    [genus |-> "Tapinoma",     species |-> "null",  months |-> {5,6,7,8},   t_opt |-> 26000, t_width |-> 6000, rh_k |-> 130, rain_sens |-> 1000, wind_penalty |-> 100],
    [genus |-> "Myrmica",      species |-> "null",  months |-> {8,9},       t_opt |-> 23000, t_width |-> 4500, rh_k |-> 170, rain_sens |-> 1100, wind_penalty |-> 80],
    [genus |-> "Temnothorax",  species |-> "null",  months |-> {6,7,8},     t_opt |-> 25000, t_width |-> 5000, rh_k |-> 140, rain_sens |-> 1000, wind_penalty |-> 50] >>

\* -------------------------------------------------------------- utilities
RECURSIVE SumSeq(_)
SumSeq(s) == IF s = <<>> THEN 0 ELSE Head(s) + SumSeq(Tail(s))

RECURSIVE MaxSeq(_)
MaxSeq(s) == IF Len(s) = 1 THEN s[1] ELSE Max2(Head(s), MaxSeq(Tail(s)))

\* toRad: milli-degrees to milli-radians (pi/180 = 349/20000)
ToRad(v) == RoundDiv(v * 349, 20000)

\* a = sin^2(dLat/2) + cos(lat1) cos(lat2) sin^2(dLon/2), in 10^-6, from the
\* two half-angle sines and the product of the cosines (milli)
HaversineA(sLat, sLon, cc) == sLat * sLat + (cc * sLon * sLon) \div 1000

\* 2 * atan2(sqrt(a), sqrt(1 - a)), in milli-radians
CentralAngle(a) ==
    2 * Atan2(ISqrt(Min2(Max2(a, 0), 1000000)), ISqrt(1000000 - Min2(Max2(a, 0), 1000000)))

\* haversineKm: coordinates in milli-degrees, result in km (the half-angle
\* sines have milli resolution, about 13 km)
haversineKm(lat1, lon1, lat2, lon2) ==
    (6371 * CentralAngle(HaversineA(Sin(RoundDiv((lat2 - lat1) * 349, 40000)),
                                    Sin(RoundDiv((lon2 - lon1) * 349, 40000)),
                                    (Cos(ToRad(lat1)) * Cos(ToRad(lat2))) \div 1000))) \div 1000

\* e / (1 + e)
Logistic(e) == (1000 * e) \div (1000 + e)

\* sigmoid(x) = 1 / (1 + exp(-x))
sigmoid(x) ==
    IF x >= 0 THEN 1000000 \div (1000 + ExpNeg(x))
    ELSE Logistic(ExpNeg(-x))

\* 2 * (xs[i] - xMean) for the i-th of n values, i counted from 1
TwiceDx(i, n) == 2 * (i - 1) - (n - 1)

\* num / den of the slope, both sums taken with the doubled x deviations
SlopeOf(values, n, yMean) ==
    (2 * SumSeq([i \in 1..n |-> TwiceDx(i, n) * (values[i] - yMean)]))
        \div SumSeq([i \in 1..n |-> TwiceDx(i, n) * TwiceDx(i, n)])

\* linearSlope: least-squares slope of values against 0..n-1 (den is 0 only
\* when n < 2)
linearSlope(values) ==
    IF Len(values) < 2 THEN 0
    ELSE SlopeOf(values, Len(values), SumSeq(values) \div Len(values))

\* exps.map(e => e / sum), with sum || 1
Normalise(exps, sum) ==
    [i \in 1..Len(exps) |-> (exps[i] * 1000) \div (IF sum = 0 THEN 1 ELSE sum)] \o <<>>

\* arr.map(x => Math.exp(x - max))
Exps(arr, max) == [i \in 1..Len(arr) |-> ExpNeg(max - arr[i])] \o <<>>

\* the exponentials and their sum
SoftmaxOf(exps) == Normalise(exps, SumSeq(exps))

\* softmax over a sequence of raw scores (milli)
softmax(arr) == SoftmaxOf(Exps(arr, MaxSeq(arr)))

\* ------------------------------------------------------------ JSON values
JUndefined == [type |-> "undefined", v |-> 0]
JNumber(x) == [type |-> "number", v |-> x]
JText(x) == [type |-> "string", v |-> x]

\* a string that is no timestamp
NotADate == [y |-> 0, m |-> 0, d |-> 0, h |-> 0]

\* new Date(string).getTime(), in hours; NaN for a string Date cannot parse
DateParse(iso) ==
    IF iso.m \in 1..12 /\ iso.d \in 1..31 /\ iso.h \in 0..23
    THEN Num(ParseISO(iso))
    ELSE NaN

\* mutant of JsRem: the floored modulo, never negative
JsRemFloored(a, b) == a % b

\* JavaScript's remainder: the sign of the result is the sign of the dividend
JsRem(a, b) == IF a >= 0 THEN a % b ELSE -((-a) % b)

\* -------------------------------------------------------- synthetic series
\* the body of the fallback loop for hour offset i
SyntheticReading(i) ==
    [ temp     |-> 26000 + 6 * Sin(RoundDiv(i * 1000, 24)),
      rh       |-> 55000 + 15 * Sin(RoundDiv(i * 1000, 36)),
      precip   |-> IF JsRem(i, 48) = 1 THEN 3000 ELSE 0,
      wind     |-> 8000 + 4 * Cos(RoundDiv(i * 1000, 24)),
      pressure |-> 1013000 + 2 * Sin(RoundDiv(i * 1000, 48)) ]

\* the readings depend on the offset i alone: entry k is the reading at
\* offset k - 73, for the offsets of the longest series
SyntheticReadings ==
    [k \in 1..(72 + MAX_FORECAST_DAYS * 24) |-> SyntheticReading(k - 73)] \o <<>>

\* the object pushed at offset i, t.toISOString() with t = now + i hours
SyntheticObservation(t0, i) ==
    [ time     |-> JText(ToISOString(t0 + i)),
      temp     |-> SyntheticReadings[i + 73].temp,
      rh       |-> SyntheticReadings[i + 73].rh,
      precip   |-> SyntheticReadings[i + 73].precip,
      wind     |-> SyntheticReadings[i + 73].wind,
      pressure |-> SyntheticReadings[i + 73].pressure ]

\* for (let i = -72; i < days * 24; i++) hourly.push(...): no iteration when
\* days is NaN
SyntheticHourly(t0, days) ==
    IF days.nan THEN <<>>
    ELSE [k \in 1..(72 + days.v * 24) |-> SyntheticObservation(t0, k - 73)] \o <<>>

\* ------------------------------------------------------ feature extraction
\* index of the last observation with precip > 0.5, or 0 (the backward scan)
LastRainIndex(hourly) ==
    LET rainy == {i \in 1..Len(hourly) : hourly[i].precip > 500}
    IN  IF rainy = {} THEN 0 ELSE CHOOSE i \in rainy : \A j \in rainy : j <= i

\* Math.max(0, Math.round((now - last) / 3600000)) for two time values
HoursBetween(lastTime, endTime) ==
    IF lastTime.type # "string" \/ endTime.type # "string"
       \/ DateParse(lastTime.v).nan \/ DateParse(endTime.v).nan
    THEN NaN
    ELSE Num(Max2(0, DateParse(endTime.v).v - DateParse(lastTime.v).v))

\* the scan found rain at index i, or nothing (i = 0)
HoursSinceIndex(hourly, i) ==
    IF i = 0 THEN Num(999)
    ELSE HoursBetween(hourly[i].time, hourly[Len(hourly)].time)

hoursSinceLastRain(hourly) == HoursSinceIndex(hourly, LastRainIndex(hourly))

\* hourly.slice(-24)
LastDay(hourly) == SubSeq(hourly, Max2(1, Len(hourly) - 23), Len(hourly))

\* last.map(h => h.pressure ?? 1013)
Pressures(last) == [i \in 1..Len(last) |-> last[i].pressure] \o <<>>

pressureTrendLast24(hourly) == linearSlope(Pressures(LastDay(hourly)))

\* Array.prototype.sort() of the distinct dates: ascending string order
RECURSIVE SortDates(_)
SortDates(S) ==
    IF S = {} THEN <<>>
    ELSE LET least == CHOOSE a \in S : \A b \in S : a = b \/ DateLess(a, b)
         IN  <<least>> \o SortDates(S \ {least})

\* dates.slice(0, days): ToIntegerOrInfinity(NaN) is 0
SliceTo(seq, days) ==
    IF days.nan THEN <<>>
    ELSE SubSeq(seq, 1, Min2(Len(seq), Max2(days.v, 0)))

SelectObs(hourly, date) == SelectSeq(hourly, LAMBDA h : DateOf(h.time.v) = date)

\* the aggregate of one date's observations
Aggregate(d, arr) ==
    [ date         |-> d,
      tmax         |-> MaxSeq([i \in 1..Len(arr) |-> arr[i].temp]),
      rhMean       |-> SumSeq([i \in 1..Len(arr) |-> arr[i].rh]) \div Len(arr),
      precipSum    |-> SumSeq([i \in 1..Len(arr) |-> arr[i].precip]),
      windMax      |-> MaxSeq([i \in 1..Len(arr) |-> arr[i].wind]),
      pressureMean |-> SumSeq([i \in 1..Len(arr) |-> arr[i].pressure]) \div Len(arr) ]

\* the loop over dates.slice(0, days)
AggregateDates(hourly, pick) ==
    [k \in 1..Len(pick) |-> Aggregate(pick[k], SelectObs(hourly, pick[k]))] \o <<>>

\* the keys of the map: the distinct dates of the series
DatesOf(hourly) == {DateOf(hourly[i].time.v) : i \in 1..Len(hourly)}

\* dailyAggregatesFromHourly; h.time.slice throws a TypeError when a time is
\* not a string
dailyAggregatesFromHourly(hourly, days) ==
    IF \E i \in 1..Len(hourly) : hourly[i].time.type # "string"
    THEN [threw |-> TRUE, out |-> <<>>]
    ELSE [threw |-> FALSE,
          out   |-> AggregateDates(hourly, SliceTo(SortDates(DatesOf(hourly)), days))]

\* --------------------------------------------------------- sightings boost
\* Math.max(0, (new Date(dayDate) - new Date(s.datetime)) / 86400000), in
\* milli-days, for a sighting seen at hour `seen`
AgeDays(dayDate, seen) == Max2(0, ((DaysFromCivil(dayDate) * 24 - seen) * 1000) \div 24)

\* confidence * distWeight * recency
Weighted(confidence, distWeight, recency) ==
    (((confidence * distWeight) \div 1000) * recency) \div 1000

\* one sighting's term of the sum; NaN when its datetime is no date
BoostTerm(lat, lon, dayDate, s) ==
    IF DateParse(s.datetime).nan THEN NaN
    ELSE Num(Weighted(s.confidence,
                      ExpNeg((haversineKm(lat, lon, s.lat, s.lon) * 1000) \div 30),
                      ExpNeg(AgeDays(dayDate, DateParse(s.datetime).v) \div 3)))

\* boost += term
AddNum(a, b) == IF a.nan \/ b.nan THEN NaN ELSE Num(a.v + b.v)

RECURSIVE BoostSum(_, _, _, _)
BoostSum(lat, lon, dayDate, list) ==
    IF list = <<>> THEN Num(0)
    ELSE AddNum(BoostSum(lat, lon, dayDate, SubSeq(list, 1, Len(list) - 1)),
                BoostTerm(lat, lon, dayDate, list[Len(list)]))

\* Math.min(boost, 3.0); NaN stays NaN
CapBoost(boost) == IF boost.nan THEN NaN ELSE Num(Min2(boost.v, 3000))

sightingsBoostForDay(lat, lon, dayDate, sightingsList) ==
    CapBoost(BoostSum(lat, lon, dayDate, sightingsList))

\* ------------------------------------------------------------------ models
\* exp(-(dt^2) / (2 * width^2))
Gauss(dt, width) ==
    IF Abs(dt) > 40000 THEN 0
    ELSE ExpNeg((dt * dt) \div ((2 * width * width) \div 1000))

\* the rain-recency factor before its per-model multiplier
RainFit(hoursSinceRain) ==
    IF hoursSinceRain < 72 THEN ExpNeg((hoursSinceRain * 1000) \div 24) ELSE 0

\* Math.max(0, 1 - Math.max(0, windMax - 8) / 12)
WindFit(windMax) == Max2(0, 1000 - Max2(0, windMax - 8000) \div 12)

\* the linear combination of the six factors, less the bias
EnvLinear(ft, fh, fr, fw, fp, sight) ==
    (1000 * ft + 800 * fh + 1000 * fr + 900 * fw + 300 * fp + 600 * sight) \div 1000 - 3500

environmentalFlightProbability(features) ==
    IF features.sightingsBoost.nan THEN NaN
    ELSE Num(sigmoid(EnvLinear(
             Gauss(features.tmax - 28000, 6000),
             sigmoid((120 * (features.rhMean - 60000)) \div 1000),
             (RainFit(features.hoursSinceRain) * 900) \div 1000,
             WindFit(features.windMax),
             1000 - Min2(500, Abs(features.pressureTrend) \div 10),
             Min2(1000, features.sightingsBoost.v \div 4))))

\* the raw score of one catalog entry
RawScore(features, s) ==
    ( 1200 * Gauss(features.tmax - s.t_opt, s.t_width)
    + 900 * sigmoid((s.rh_k * (features.rhMean - 60000)) \div 1000)
    + 1000 * ((RainFit(features.hoursSinceRain) * s.rain_sens) \div 1000)
    + 900 * ((WindFit(features.windMax) * (1000 - s.wind_penalty)) \div 1000)
    + 500 * (IF features.month \in s.months THEN 1000 ELSE 300) ) \div 1000

speciesRelativeScores(features) ==
    softmax([i \in 1..Len(SPECIES) |-> RawScore(features, SPECIES[i])] \o <<>>)

\* ------------------------------------------------------- forecast assembly
\* mutant of CompareProbability: the operands swapped (ascending order)
CompareProbabilityAscending(a, b) ==
    IF a.probability.nan \/ b.probability.nan THEN 0
    ELSE a.probability.v - b.probability.v

\* the sort comparator (a, b) => b.probability - a.probability; a NaN result
\* is treated as +0 by Array.prototype.sort
CompareProbability(a, b) ==
    IF a.probability.nan \/ b.probability.nan THEN 0
    ELSE b.probability.v - a.probability.v

\* Array.prototype.sort is stable: x goes behind every element that does not
\* compare after it
RECURSIVE InsertRanked(_, _)
InsertRanked(seq, x) ==
    IF seq = <<>> THEN <<x>>
    ELSE IF CompareProbability(seq[Len(seq)], x) <= 0 THEN Append(seq, x)
    ELSE Append(InsertRanked(SubSeq(seq, 1, Len(seq) - 1), x), seq[Len(seq)])

RECURSIVE SortRanked(_)
SortRanked(seq) ==
    IF seq = <<>> THEN <<>>
    ELSE InsertRanked(SortRanked(SubSeq(seq, 1, Len(seq) - 1)), seq[Len(seq)])

\* scored.slice(0, 5)
TopN(seq) == SubSeq(seq, 1, Min2(5, Len(seq)))

\* Number((envProb * rel).toFixed(3))
RoundedProbability(envProb, rel) ==
    IF envProb.nan THEN NaN ELSE Num(RoundDiv(envProb.v * rel, 1000))

\* SPECIES.map(...): every taxon with its rounded probability
Scored(envProb, rel) ==
    [i \in 1..Len(SPECIES) |->
        [ genus       |-> SPECIES[i].genus,
          species     |-> SPECIES[i].species,
          probability |-> RoundedProbability(envProb, rel[i]) ]] \o <<>>

\* the feature vector of one day
Features(lat, lon, day, hoursSince, pressureTrend, sightingsList) ==
    [ tmax           |-> day.tmax,
      rhMean         |-> day.rhMean,
      hoursSinceRain |-> hoursSince.v,
      windMax        |-> day.windMax,
      pressureTrend  |-> pressureTrend,
      month          |-> day.date[2],
      sightingsBoost |-> sightingsBoostForDay(lat, lon, day.date, sightingsList) ]

\* scoring, ranking and truncation for one feature vector
Top5(features) ==
    TopN(SortRanked(Scored(environmentalFlightProbability(features),
                           speciesRelativeScores(features))))

\* one iteration of the loop over dailyAgg
PredictionDay(lat, lon, day, hoursSince, pressureTrend, sightingsList) ==
    [ date |-> day.date,
      top5 |-> Top5(Features(lat, lon, day, hoursSince, pressureTrend, sightingsList)) ]

\* the loop over dailyAgg
Calendar(lat, lon, dailyAgg, hoursSince, pressureTrend, sightingsList) ==
    IF dailyAgg.threw THEN [threw |-> TRUE, calendar |-> <<>>]
    ELSE [ threw    |-> FALSE,
           calendar |-> [k \in 1..Len(dailyAgg.out) |->
                            PredictionDay(lat, lon, dailyAgg.out[k], hoursSince,
                                          pressureTrend, sightingsList)] \o <<>> ]

\* the handler from the feature extraction to the calendar
BuildCalendar(lat, lon, hourly, days, sightingsList) ==
    Calendar(lat, lon, dailyAggregatesFromHourly(hourly, days),
             hoursSinceLastRain(hourly), pressureTrendLast24(hourly), sightingsList)

\* ------------------------------------------------------- query parameters
Digits == <<"0", "1", "2", "3", "4", "5", "6", "7", "8", "9">>
IsDigit(c) == \E i \in 1..10 : Digits[i] = c
DigitValue(c) == (CHOOSE i \in 1..10 : Digits[i] = c) - 1

\* the longest run of digits of s from position i: [value, next position]
RECURSIVE ReadDigits(_, _, _)
ReadDigits(s, i, acc) ==
    IF i <= Len(s) /\ IsDigit(s[i]) THEN ReadDigits(s, i + 1, 10 * acc + DigitValue(s[i]))
    ELSE [value |-> acc, next |-> i]

\* the length of a leading sign
SignLen(s) == IF s # <<>> /\ s[1] \in {"-", "+"} THEN 1 ELSE 0

\* a magnitude with the sign the string starts with
Signed(s, mag) == Num(IF s[1] = "-" THEN -mag ELSE mag)

\* the number for a run of digits read from position `from`: NaN if empty
IntOf(s, from, run) == IF run.next = from THEN NaN ELSE Signed(s, run.value)

\* parseInt(s, 10) of a string given as its characters
ParseInt(s) == IntOf(s, SignLen(s) + 1, ReadDigits(s, SignLen(s) + 1, 0))

\* the weight of an n-digit fraction, in milli
Pad(n) == IF n = 1 THEN 100 ELSE IF n = 2 THEN 10 ELSE IF n = 3 THEN 1 ELSE 0

\* digits, a point and the (at most three) digits read behind it
WithFraction(s, from, whole, frac) ==
    IF whole.next = from /\ frac.next = whole.next + 1 THEN NaN
    ELSE Signed(s, whole.value * 1000 + frac.value * Pad(frac.next - whole.next - 1))

\* the number for the digits read from position `from`, with its fraction
FloatOf(s, from, whole) ==
    IF whole.next <= Len(s) /\ s[whole.next] = "."
    THEN WithFraction(s, from, whole,
                      ReadDigits(SubSeq(s, 1, Min2(Len(s), whole.next + 3)), whole.next + 1, 0))
    ELSE IF whole.next = from THEN NaN
    ELSE Signed(s, whole.value * 1000)

\* parseFloat(s), in milli (three decimals kept); undefined gives NaN
ParseFloat(q) ==
    IF ~q.present THEN NaN
    ELSE FloatOf(q.s, SignLen(q.s) + 1, ReadDigits(q.s, SignLen(q.s) + 1, 0))

Absent == [present |-> FALSE, s |-> <<>>]
Param(chars) == [present |-> TRUE, s |-> chars]

\* parseInt(req.query.days || "7", 10)
ParseDays(q) == ParseInt(IF ~q.present \/ q.s = <<>> THEN <<"7">> ELSE q.s)

\* Math.min(Math.max(days, 1), MAX_FORECAST_DAYS): NaN stays NaN
ClampDays(days) ==
    IF days.nan THEN NaN ELSE Num(Min2(Max2(days.v, 1), MAX_FORECAST_DAYS))


\* ------------------------------------------------------ weather collaborator
\* What fetch() and res.json() can hand to getHourlyWeather: a rejected
\* promise, or a response [ok, parses, hourly] whose payload's hourly object
\* holds the time array and the five value columns.
FetchRejected ==
    [ settled |-> "rejected", ok |-> FALSE, parses |-> FALSE, hasHourly |-> FALSE,
      timeIsArray |-> FALSE, hasColumns |-> FALSE, time |-> <<>>, columns |-> <<>> ]

HttpError == [FetchRejected EXCEPT !.settled = "fulfilled"]

NoHourly == [HttpError EXCEPT !.ok = TRUE, !.parses = TRUE]

\* a time array without the value columns
MissingColumns ==
    [NoHourly EXCEPT !.hasHourly = TRUE, !.timeIsArray = TRUE, !.time = <<JText(ToISOString(0))>>]

\* the first and last hour of the window the request asks for: start_date
\* 00:00 to end_date 23:00
WindowStart(t0) == ((t0 - 72) \div 24) * 24
WindowEnd(t0, days) == ((t0 + days * 24) \div 24) * 24 + 23

\* the columns of a well-formed payload at row k: a dry spell with a daily
\* cycle of temperature and wind and a falling pressure
LiveColumns(k) ==
    [ temp     |-> 21000 + 400 * ((k - 1) % 24),
      rh       |-> 80000,
      precip   |-> 0,
      wind     |-> 9000 + 100 * ((k - 1) % 24),
      pressure |-> 1015000 - 50 * k ]

\* a well-formed payload over the requested window, start_date 00:00 to
\* end_date 23:00
LivePayload(t0, days) ==
    [ settled |-> "fulfilled", ok |-> TRUE, parses |-> TRUE, hasHourly |-> TRUE,
      timeIsArray |-> TRUE, hasColumns |-> TRUE,
      time    |-> [k \in 1..(WindowEnd(t0, days) - WindowStart(t0) + 1) |->
                      JText(ToISOString(WindowStart(t0) + k - 1))] \o <<>>,
      columns |-> [k \in 1..(WindowEnd(t0, days) - WindowStart(t0) + 1) |->
                      LiveColumns(k)] \o <<>> ]

\* a payload with all its arrays, whose time entries are numbers
NumericTimes ==
    [ settled |-> "fulfilled", ok |-> TRUE, parses |-> TRUE, hasHourly |-> TRUE,
      timeIsArray |-> TRUE, hasColumns |-> TRUE,
      time    |-> <<[type |-> "number", v |-> NotADate]>>,
      columns |-> <<[temp |-> 27000, rh |-> 65000, precip |-> 0, wind |-> 5000,
                     pressure |-> 1013000]>> ]

FetchResults(t0, days) ==
    { FetchRejected, HttpError, NoHourly, MissingColumns, NumericTimes,
      LivePayload(t0, days) }

\* getHourlyWeather after `await fetch`: [threw, hourly]
getHourlyWeather(fetched) ==
    IF \/ fetched.settled = "rejected"
       \/ ~fetched.ok
       \/ ~fetched.parses
       \/ ~fetched.hasHourly \/ ~fetched.timeIsArray
       \/ (fetched.time # <<>> /\ ~fetched.hasColumns)
    THEN [threw |-> TRUE, hourly |-> <<>>]
    ELSE [ threw  |-> FALSE,
           hourly |-> [i \in 1..Len(fetched.time) |->
                          [ time     |-> fetched.time[i],
                            temp     |-> fetched.columns[i].temp,
                            rh       |-> fetched.columns[i].rh,
                            precip   |-> fetched.columns[i].precip,
                            wind     |-> fetched.columns[i].wind,
                            pressure |-> fetched.columns[i].pressure ]] \o <<>> ]

\* getHourlyWeather before `await fetch`: end.toISOString() throws a
\* RangeError when hoursForward is NaN
WindowThrows(days) == days.nan


\* --------------------------------------------------------- sightings store
\* the absent datetime field of a request body
NoDatetime == [type |-> "undefined", v |-> NotADate]
NoText == [type |-> "undefined", v |-> ""]

\* mutant of CoordsRejected: && in place of ||
CoordsRejectedBoth(body) == body.lat.type # "number" /\ body.lon.type # "number"

\* typeof lat !== "number" || typeof lon !== "number"
CoordsRejected(body) == body.lat.type # "number" \/ body.lon.type # "number"

\* the record POST /api/sightings stores for an accepted body at time t
SightingRecord(body, t) ==
    [ datetime   |-> IF body.datetime.type = "string" THEN body.datetime.v ELSE ToISOString(t),
      lat        |-> body.lat.v,
      lon        |-> body.lon.v,
      genus      |-> IF body.genus.type = "string" THEN body.genus.v ELSE "null",
      species    |-> IF body.species.type = "string" THEN body.species.v ELSE "null",
      confidence |-> IF body.confidence.type = "number" THEN body.confidence.v ELSE 700 ]

\* the comparator (a, b) => new Date(b.datetime) - new Date(a.datetime); a NaN
\* result is treated as +0 by Array.prototype.sort
CompareNewest(a, b) ==
    LET ta == DateParse(a.datetime)
        tb == DateParse(b.datetime)
    IN  IF ta.nan \/ tb.nan THEN 0 ELSE tb.v - ta.v

RECURSIVE InsertNewest(_, _)
InsertNewest(seq, x) ==
    IF seq = <<>> THEN <<x>>
    ELSE IF CompareNewest(seq[Len(seq)], x) <= 0 THEN Append(seq, x)
    ELSE Append(InsertNewest(SubSeq(seq, 1, Len(seq) - 1), x), seq[Len(seq)])

RECURSIVE SortNewest(_)
SortNewest(seq) ==
    IF seq = <<>> THEN <<>>
    ELSE InsertNewest(SortNewest(SubSeq(seq, 1, Len(seq) - 1)), seq[Len(seq)])

\* ECMAScript's "consistent comparator" over the elements of seq
ConsistentComparator(seq) ==
    \A i, j, k \in 1..Len(seq) :
        LET ab == CompareNewest(seq[i], seq[j])
            bc == CompareNewest(seq[j], seq[k])
            ac == CompareNewest(seq[i], seq[k])
        IN  /\ (ab = 0 /\ bc = 0) => ac = 0
            /\ (ab < 0 /\ bc < 0) => ac < 0
            /\ (ab > 0 /\ bc > 0) => ac > 0

\* [...sightings].sort(comparator): the stable sort when the comparator is
\* consistent; otherwise the order is implementation-defined, any
\* arrangement of the elements
SortedCopies(seq) ==
    IF ConsistentComparator(seq) THEN {SortNewest(seq)}
    ELSE {[i \in 1..Len(seq) |-> seq[p[i]]] : p \in Permutations(1..Len(seq))}

\* ---------------------------------------------------------------- requests
\* the request bodies the model submits (coordinates in milli-degrees)
SampleBodies ==
    LET blank == [ datetime |-> NoDatetime, lat |-> JUndefined, lon |-> JUndefined,
                   genus |-> NoText, species |-> NoText, confidence |-> JUndefined ]
        here  == [blank EXCEPT !.lat = JNumber(45000), !.lon = JNumber(-122000)]
    IN  { \* a dated sighting on the spot, confidence left to its default
          [here EXCEPT !.datetime = JText([y |-> 2024, m |-> 8, d |-> 30, h |-> 12]),
                       !.genus = JText("Lasius")],
          \* a datetime that is no date, confidence 0
          [here EXCEPT !.datetime = JText(NotADate), !.confidence = JNumber(0)],
          \* a later sighting one degree north, with a negative confidence
          [here EXCEPT !.datetime = JText([y |-> 2024, m |-> 8, d |-> 31, h |-> 18]),
                       !.lat = JNumber(46000), !.confidence = JNumber(-1000)],
          \* latitude missing
          [here EXCEPT !.lat = JUndefined],
          \* latitude given as a string
          [here EXCEPT !.lat = [type |-> "string", v |-> 45000]] }

\* the query strings the model sends: <<lat, lon>> and days
CoordParams ==
    { <<Param(<<"4", "5">>), Param(<<"-", "1", "2", "2">>)>>,
      <<Absent, Param(<<"-", "1", "2", "2">>)>>,
      <<Param(<<"4", "5">>), Param(<<"a", "b", "c">>)>> }
DaysParams ==
    {Absent, Param(<<"0">>), Param(<<"2", "0">>), Param(<<"N", "a", "N">>)}

\* 2024-08-31T23:00Z, in hours since the epoch
Clock0 == 19966 * 24 + 23

NoResponse == [op |-> "none"]
Idle == [active |-> FALSE]
NoNote == [present |-> FALSE, requested |-> 0, applied |-> 0]

\* the payload is a well-formed hourly series
WellFormed(fetched) ==
    /\ fetched.settled = "fulfilled" /\ fetched.ok /\ fetched.parses
    /\ fetched.hasHourly /\ fetched.timeIsArray /\ fetched.hasColumns
    /\ \A i \in 1..Len(fetched.time) : fetched.time[i].type = "string"

\* mutant of Note: the notice reports the clamped value as the requested one
NoteOfClamped(requestedDays) ==
    IF ~requestedDays.nan /\ requestedDays.v > MAX_FORECAST_DAYS
    THEN [present |-> TRUE, requested |-> MAX_FORECAST_DAYS, applied |-> MAX_FORECAST_DAYS]
    ELSE [present |-> FALSE, requested |-> 0, applied |-> 0]

\* the X-Note header: set when requestedDays > MAX_FORECAST_DAYS
Note(requestedDays) ==
    IF ~requestedDays.nan /\ requestedDays.v > MAX_FORECAST_DAYS
    THEN [present |-> TRUE, requested |-> requestedDays.v, applied |-> MAX_FORECAST_DAYS]
    ELSE NoNote

\* res.json(calendar), or the outer catch's 500
Respond(built, requestedDays, locals) ==
    IF built.threw
    THEN [ op |-> "predict", status |-> 500, error |-> "failed to compute predictions",
           body |-> <<>>, note |-> NoNote, locals |-> locals ]
    ELSE [ op |-> "predict", status |-> 200, error |-> "",
           body |-> built.calendar, note |-> Note(requestedDays), locals |-> locals ]

\* the series the handler goes on with: the collaborator's, or the synthetic
\* one built in the catch
HourlyFor(got, t, days) == IF got.threw THEN SyntheticHourly(t, days) ELSE got.hourly

\* the handler from the feature extraction on, for the series `hourly`
RespondWith(lat, lon, days, requestedDays, got, t, list, ghost, hourly) ==
    Respond(BuildCalendar(lat, lon, hourly, days, list), requestedDays,
            [ghost EXCEPT !.lat = lat, !.lon = lon, !.days = days,
                          !.requestedDays = requestedDays, !.got = got,
                          !.fellBack = got.threw, !.hourly = hourly,
                          !.servedAt = t, !.used = list])

\* GET /api/predict from the catch of the weather fetch to the response.
\* `got` is getHourlyWeather's result, `t` the clock when the handler
\* resumes, `list` the sightings array it reads; `ghost` records the
\* handler's locals beside the response.
PredictResponse(lat, lon, days, requestedDays, got, t, list, ghost) ==
    RespondWith(lat, lon, days, requestedDays, got, t, list, ghost, HourlyFor(got, t, days))

NoLocals ==
    [ lat |-> 0, lon |-> 0, days |-> NaN, requestedDays |-> NaN,
      got |-> [threw |-> TRUE, hourly |-> <<>>], fellBack |-> FALSE, hourly |-> <<>>,
      servedAt |-> 0, used |-> <<>>, startedAt |-> 0, snapshot |-> <<>>,
      collaboratorFailed |-> FALSE, daysQ |-> Absent ]

\* ----------------------------------------------------------------- actions
\* sightings: the in-memory store; now: the clock; pend: the forecast request
\* suspended at `await getHourlyWeather`, if any; resp: the response on its
\* way to the client, if any.  The client takes each response before the
\* next request is handled.
Init ==
    /\ sightings = <<>>
    /\ now = Clock0
    /\ pend = Idle
    /\ resp = NoResponse

\* time passes
Tick ==
    /\ resp.op = "none"
    /\ now < Clock0 + MaxTicks
    /\ now' = now + 1
    /\ UNCHANGED <<sightings, pend, resp>>

\* the client receives the response
Deliver ==
    /\ resp.op # "none"
    /\ resp' = NoResponse
    /\ UNCHANGED <<sightings, now, pend>>

\* POST /api/sightings
PostSighting(body) ==
    /\ resp.op = "none"
    /\ IF CoordsRejected(body)
       THEN /\ resp' = [op |-> "post", status |-> 400, error |-> "lat/lon required", sent |-> body]
            /\ UNCHANGED sightings
       ELSE /\ Len(sightings) < MaxSightings
            /\ sightings' = Append(sightings, SightingRecord(body, now))
            /\ resp' = [op |-> "post", status |-> 200, error |-> "", sent |-> body]
    /\ UNCHANGED <<now, pend>>

\* GET /api/sightings
ListSightings ==
    /\ resp.op = "none"
    /\ \E listing \in SortedCopies(sightings) :
           resp' = [op |-> "list", status |-> 200, body |-> listing]
    /\ UNCHANGED <<sightings, now, pend>>

\* GET /api/predict up to `await fetch`.  A rejection raised before the fetch
\* (NaN days) resumes the handler in a microtask, so it completes in the
\* same step.
PredictStart(latQ, lonQ, daysQ) ==
    LET lat           == ParseFloat(latQ)
        lon           == ParseFloat(lonQ)
        requestedDays == ParseDays(daysQ)
        days          == ClampDays(requestedDays)
        ghost         == [NoLocals EXCEPT !.startedAt = now, !.snapshot = sightings,
                                          !.daysQ = daysQ]
    IN  /\ resp.op = "none"
        /\ ~pend.active
        /\ IF lat.nan \/ lon.nan
           THEN /\ resp' = [ op |-> "predict", status |-> 400, error |-> "lat/lon required",
                             body |-> <<>>, note |-> NoNote, locals |-> NoLocals ]
                /\ pend' = pend
           ELSE IF WindowThrows(days)
           THEN /\ resp' = PredictResponse(lat.v, lon.v, days, requestedDays,
                                           [threw |-> TRUE, hourly |-> <<>>], now, sightings, ghost)
                /\ pend' = pend
           ELSE /\ pend' = [ active |-> TRUE, lat |-> lat.v, lon |-> lon.v, days |-> days,
                             requestedDays |-> requestedDays, startedAt |-> now,
                             snapshot |-> sightings, daysQ |-> daysQ ]
                /\ resp' = resp
        /\ UNCHANGED <<sightings, now>>

\* what the handler resumes with: getHourlyWeather's result for a fetch
\* result, and whether the collaborator failed to deliver a well-formed series
Settlements ==
    IF pend.active
    THEN {[got |-> getHourlyWeather(fetched), failed |-> ~WellFormed(fetched)] :
             fetched \in FetchResults(pend.startedAt, pend.days.v)}
    ELSE {}

\* GET /api/predict from the settling of the fetch to the response
PredictResume(settled) ==
    /\ resp.op = "none"
    /\ pend.active
    /\ resp' = PredictResponse(pend.lat, pend.lon, pend.days, pend.requestedDays,
                               settled.got, now, sightings,
                               [NoLocals EXCEPT !.startedAt = pend.startedAt,
                                                !.snapshot = pend.snapshot,
                                                !.collaboratorFailed = settled.failed,
                                                !.daysQ = pend.daysQ])
    /\ pend' = Idle
    /\ UNCHANGED <<sightings, now>>

Next ==
    \/ Tick
    \/ Deliver
    \/ \E body \in SampleBodies : PostSighting(body)
    \/ ListSightings
    \/ \E coords \in CoordParams, daysQ \in DaysParams :
           PredictStart(coords[1], coords[2], daysQ)
    \/ \E settled \in Settlements : PredictResume(settled)

Spec == Init /\ [][Next]_vars

\* ------------------------------------------------------------------ claims
\* a forecast request with numeric coordinates has completed
Served == resp.op = "predict" /\ resp.status # 400

\* a forecast response
Forecast == resp.op = "predict" /\ resp.status = 200

\* C1: when the weather collaborator fails during a forecast request with
\* numeric coordinates, the request substitutes the synthetic series and
\* completes with a forecast response, never with an error response.
CollaboratorFailureNeverSurfaced ==
    (Served /\ resp.locals.collaboratorFailed)
        => (resp.status = 200 /\ resp.locals.fellBack)

\* C2: for every forecast request with valid coordinates the day count used
\* for the weather window and for dailyAggregates is an integer in 1..16, and
\* it is 7 when the parameter is omitted.
DaysUsedWithinRange ==
    Served => /\ ~resp.locals.days.nan
              /\ resp.locals.days.v \in 1..MAX_FORECAST_DAYS
              /\ ~resp.locals.daysQ.present => resp.locals.days.v = 7

\* C3: a forecast for d days (1 <= d <= 16) with an empty sightings collection
\* and a failed collaborator has exactly d days, in ascending date order, each
\* with exactly 5 ranked taxa whose probabilities are non-increasing.
EmptyStoreFallback ==
    /\ Forecast
    /\ resp.locals.fellBack
    /\ resp.locals.used = <<>>
    /\ ~resp.locals.days.nan

FallbackForecastShape ==
    EmptyStoreFallback =>
        /\ Len(resp.body) = resp.locals.days.v
        /\ \A k \in 1..(Len(resp.body) - 1) : DateLess(resp.body[k].date, resp.body[k + 1].date)
        /\ \A k \in 1..Len(resp.body) :
              /\ Len(resp.body[k].top5) = 5
              /\ \A j \in 1..4 :
                    /\ ~resp.body[k].top5[j].probability.nan
                    /\ ~resp.body[k].top5[j + 1].probability.nan
                    /\ resp.body[k].top5[j].probability.v >= resp.body[k].top5[j + 1].probability.v

\* C3 witness: a 16-day fallback forecast over the empty store, whose ranked
\* probabilities are not all equal
SixteenDayFallback ==
    /\ EmptyStoreFallback
    /\ resp.locals.days.v = 16
    /\ Len(resp.body) = 16
    /\ resp.body[16].top5[1].probability.v > resp.body[16].top5[5].probability.v

\* the body's latitude or longitude is missing or is not a JSON number
NotBothNumbers(body) == ~(body.lat.type = "number" /\ body.lon.type = "number")

\* C4: a submission whose latitude or longitude is missing or not a number is
\* answered 400 and leaves the sightings collection as it was.
RejectedSubmissionLeavesStore ==
    [][(resp'.op = "post" /\ NotBothNumbers(resp'.sent))
          => (resp'.status = 400 /\ sightings' = sightings)]_vars

\* C4 witness: a submission with a string latitude was rejected while the
\* store holds sightings
RejectedWithStoredSightings ==
    /\ resp.op = "post"
    /\ resp.status = 400
    /\ resp.sent.lat.type = "string"
    /\ Len(sightings) = 2

\* `listing` holds the records of `store`, each once
IsArrangement(listing, store) ==
    /\ Len(listing) = Len(store)
    /\ \E p \in Permutations(1..Len(store)) : \A i \in 1..Len(store) : listing[i] = store[p[i]]

\* C5: the listing returns exactly the stored records, ordered newest datetime
\* first.
ListingNewestFirst ==
    resp.op = "list" =>
        /\ IsArrangement(resp.body, sightings)
        /\ \A i, j \in 1..Len(resp.body) :
              (i < j /\ ~DateParse(resp.body[i].datetime).nan /\ ~DateParse(resp.body[j].datetime).nan)
                  => DateParse(resp.body[i].datetime).v >= DateParse(resp.body[j].datetime).v

\* C6: a forecast is computed from the sightings collection as it was when
\* the request started: its output is the output for that snapshot.
ForecastUsesRequestTimeSnapshot ==
    Forecast =>
        resp.body = BuildCalendar(resp.locals.lat, resp.locals.lon, resp.locals.hourly,
                                  resp.locals.days, resp.locals.snapshot).calendar

\* C7: the output of a forecast is decided by its inputs (coordinates, day
\* count, sightings, collaborator outcome): served at any other moment, the
\* same request has the same output.
ForecastIndependentOfServingTime ==
    Forecast =>
        \A t \in Clock0..(Clock0 + MaxTicks) :
            PredictResponse(resp.locals.lat, resp.locals.lon, resp.locals.days,
                            resp.locals.requestedDays, resp.locals.got, t,
                            resp.locals.used, resp.locals).body = resp.body

\* the sightings collection after one more accepted submission with
\* confidence 0
WithZeroConfidence(list) ==
    {Append(list, SightingRecord(body, now)) :
        body \in {b \in SampleBodies : ~CoordsRejected(b) /\ b.confidence = JNumber(0)}}

\* C8: for every day of a forecast the sightings boost is within [0, 3], and
\* one more sighting with confidence 0 leaves it unchanged.
BoostWithinRange ==
    Forecast =>
        \A k \in 1..Len(resp.body) :
            /\ ~sightingsBoostForDay(resp.locals.lat, resp.locals.lon, resp.body[k].date,
                                     resp.locals.used).nan
            /\ sightingsBoostForDay(resp.locals.lat, resp.locals.lon, resp.body[k].date,
                                    resp.locals.used).v \in 0..3000
            /\ \A more \in WithZeroConfidence(resp.locals.used) :
                  sightingsBoostForDay(resp.locals.lat, resp.locals.lon, resp.body[k].date, more)
                      = sightingsBoostForDay(resp.locals.lat, resp.locals.lon, resp.body[k].date,
                                             resp.locals.used)

\* the request asked for more than the maximum
AskedBeyondMaximum ==
    ~resp.locals.requestedDays.nan /\ resp.locals.requestedDays.v > MAX_FORECAST_DAYS

\* C9: a forecast whose requested day count exceeds 16 is served as a 16-day
\* forecast with a notice of the requested value and of 16; the notice is no
\* part of the payload, and there is none when the request asks for at most 16.
ClampNotice ==
    /\ Forecast =>
          /\ AskedBeyondMaximum =>
                /\ resp.locals.days = Num(16)
                /\ Len(resp.body) = 16
                /\ resp.note = [present |-> TRUE, requested |-> resp.locals.requestedDays.v,
                                applied |-> 16]
          /\ ~AskedBeyondMaximum => ~resp.note.present
          /\ \A k \in 1..Len(resp.body) : DOMAIN resp.body[k] = {"date", "top5"}
    /\ (resp.op = "predict" /\ resp.note.present) => Forecast

\* C9 witness: days=20 answered with 16 days and the notice (20, 16)
TwentyServedAsSixteen ==
    /\ Forecast
    /\ resp.locals.daysQ = Param(<<"2", "0">>)
    /\ Len(resp.body) = 16
    /\ resp.note = [present |-> TRUE, requested |-> 20, applied |-> 16]

\* the synthetic series was substituted for `days` days
SyntheticServed == Served /\ resp.locals.fellBack /\ ~resp.locals.days.nan

\* C10 as stated: in the synthetic series, for each hour offset i from -72 to
\* days*24 - 1, precipitation is 3 when i mod 48 = 1 and 0 otherwise.
SyntheticPrecipitationModulo ==
    SyntheticServed =>
        /\ Len(resp.locals.hourly) = 72 + 24 * resp.locals.days.v
        /\ \A k \in 1..Len(resp.locals.hourly) :
              resp.locals.hourly[k].precip = IF (k - 73) % 48 = 1 THEN 3000 ELSE 0

\* C10 amended: precipitation is 3 at the offsets i >= 0 with i mod 48 = 1 and
\* 0 at every other offset, the lookback offsets -72..-1 included.
SyntheticPrecipitationForwardOnly ==
    SyntheticServed =>
        /\ Len(resp.locals.hourly) = 72 + 24 * resp.locals.days.v
        /\ \A k \in 1..Len(resp.locals.hourly) :
              resp.locals.hourly[k].precip =
                  IF k - 73 >= 0 /\ (k - 73) % 48 = 1 THEN 3000 ELSE 0

\* C10 witness: a synthetic series with rain at offset 1 and none at offset -47
SyntheticRainAtOffsetOne ==
    /\ SyntheticServed
    /\ resp.locals.hourly[74].precip = 3000
    /\ resp.locals.hourly[26].precip = 0
====
